---- MODULE Spec2Model ----
(***************************************************************************)
(* diranalyzer: the directory scanner (src/src/scanner.rs) and the         *)
(* duplicate finder (src/src/duplicates.rs) as state machines.             *)
(*                                                                         *)
(* A path is the sequence of its components, as std::path::Path compares   *)
(* paths component by component.  The scan root is a one-component         *)
(* relative path such as "r" or ".".                                       *)
(***************************************************************************)
EXTENDS Integers, Sequences, FiniteSets, TLC

\* ------------------------------------------------------------------ bounds
\* Deepest entry of the file system below the scan root.
MaxTreeDepth == 2
\* Largest number of entries of the file system below the scan root.
MaxEntries == 4
\* Largest file size in bytes.
MaxSize == 3
\* Longest file list handed to find_duplicates.
MaxFiles == 4
\* Largest configured thread count.
MaxThreads == 2
\* Most files another process rewrites or removes while find_duplicates runs.
MaxChanges == 1
\* The longest file list of the runs checked for termination.
MaxLiveFiles == 3
\* Most logical cores the platform reports.
MaxCores == 5
\* Most files rewritten or removed between the scan and find_duplicates.
MaxStale == 2
\* The bits of the words u64 arithmetic is modelled with.
WordBits == 16

\* ------------------------------------------------------------------- paths
\* File names of the file system; the names of DotNames start with '.'.
Names == {"a", ".h"}
DotNames == {".h", "."}
\* Names of the scan root given on the command line ("." is `diranalyzer .`).
RootNames == {"r", "."}
\* The file sizes in bytes: the smallest and the largest.
Sizes == {1, MaxSize}

\* Path::parent as an Option: {} is None, {q} is Some(q).  The empty path has
\* no parent; the parent of a one-component relative path is the empty path.
Parent(p) ==
    IF Len(p) = 0 THEN {} ELSE {SubSeq(p, 1, Len(p) - 1)}

\* Option::unwrap_or_else(|| Path::new(""))
UnwrapOrEmpty(opt) ==
    IF opt = {} THEN <<>> ELSE CHOOSE q \in opt : TRUE

\* DirEntry::file_name: the last component (the whole path for a root that
\* has no file name, such as ".").
FileName(p) == p[Len(p)]

\* ------------------------------------------------------------ file system
\* The entries of the file system at and below path p, at most `budget` of
\* them and at most d levels deep: nothing, a file (whose metadata can or
\* cannot be read), an unreadable entry (the walker yields Err), or a
\* directory with the entries of its children.
RECURSIVE Subtrees(_, _, _)
Subtrees(p, d, budget) ==
    IF budget = 0 THEN {{}}
    ELSE
        {{}}
        \cup {{[path |-> p, kind |-> "file", size |-> s]} : s \in Sizes}
        \cup {{[path |-> p, kind |-> "nometa", size |-> 0]}}
        \cup {{[path |-> p, kind |-> "denied", size |-> 0]}}
        \cup {{[path |-> p, kind |-> "dir", size |-> 0]}}
        \cup (IF d = 0 THEN {}
              ELSE UNION {
                     {{[path |-> p, kind |-> "dir", size |-> 0]} \cup c1 \cup c2 :
                         c2 \in Subtrees(Append(p, ".h"), d - 1,
                                         budget - 1 - Cardinality(c1))}
                     : c1 \in Subtrees(Append(p, "a"), d - 1, budget - 1)})

\* A scan root that is a directory, with its entries.
FileSystems(root) ==
    UNION { { {[path |-> <<root>>, kind |-> "dir", size |-> 0]} \cup c1 \cup c2 :
                c2 \in Subtrees(<<root, ".h">>, MaxTreeDepth - 1,
                                MaxEntries - Cardinality(c1)) }
            : c1 \in Subtrees(<<root, "a">>, MaxTreeDepth - 1, MaxEntries) }

VARIABLES
    pc,            \* position of scan(): "start", "walking", "done"
    args,          \* Args: path, max_depth, show_hidden, exclude_patterns
    fs,            \* the entries of the file system under the scan root
    walker,        \* the entries the WalkDir iterator has still to yield
    files,         \* scan(): Vec<FileEntry>
    directories,   \* scan(): HashMap<PathBuf, DirectoryEntry>, as seeded
    errors,        \* scan(): Vec<ScanError>
    total_size,    \* scan(): running sum of file sizes
    results,       \* ScanResults, once scan() has returned
    dpc,           \* position of find_duplicates()
    parallelism,   \* what std::thread::available_parallelism() answers: {} an error
    finder,        \* DuplicateFinder: min_size, thread_count
    disk,          \* the content of each file as a read finds it now
    changes,       \* the files other processes have changed so far
    potential_duplicates,  \* find_duplicates(): the files that passed the size filter
    todo,          \* the items of the parallel iterator no worker has taken
    in_flight,     \* the items workers are processing, each with its stage
    hash_map,      \* find_duplicates(): DashMap<String, Vec<PathBuf>>
    progress,      \* position of the progress bar
    hash_log,      \* per path, the results of the calls of calculate_file_hash
    duplicate_groups,  \* the Vec<DuplicateGroup> find_duplicates returns
    statistics     \* the Statistics of calculate_statistics, once computed

scanVars == <<pc, args, fs, walker, directories, errors, total_size, results>>
dupVars == <<dpc, parallelism, finder, disk, changes, potential_duplicates, todo, in_flight,
             hash_map, progress, hash_log, duplicate_groups, statistics>>
vars == <<scanVars, files, dupVars>>

NoResults == [total_files |-> 0, total_directories |-> 0, total_size |-> 0,
              files |-> <<>>, directories |-> <<>>, errors |-> <<>>]

\* No Statistics yet.
NoStatistics == [computed |-> FALSE, duplicate_files |-> 0, wasted_space |-> 0,
                 compression_ratio |-> [num |-> 0, den |-> 1]]

\* --------------------------------------------------------------- the walker
\* WalkDir::new(path).max_depth(d): the entries at and below p in depth-first
\* preorder, a directory before its children, none deeper than max_depth
\* (the root has depth 0).  The order of siblings is the directory's own.
RECURSIVE WalkFrom(_, _, _)
WalkFrom(p, entries, max_depth) ==
    LET here == {e \in entries : e.path = p} IN
    IF here = {} \/ Len(p) - 1 > max_depth THEN <<>>
    ELSE LET e == CHOOSE x \in here : TRUE IN
         <<e>> \o (IF e.kind = "dir"
                   THEN WalkFrom(Append(p, "a"), entries, max_depth)
                        \o WalkFrom(Append(p, ".h"), entries, max_depth)
                   ELSE <<>>)

\* Regex::is_match of a literal pattern on the path string: the pattern
\* occurs in the path, that is, it is one of its components.
IsMatch(pattern, p) == \E i \in 1..Len(p) : p[i] = pattern

\* DirectoryScanner::should_exclude
ShouldExclude(a, e) ==
    \/ ~a.show_hidden /\ FileName(e.path) \in DotNames
    \/ \E i \in 1..Len(a.exclude_patterns) : IsMatch(a.exclude_patterns[i], e.path)

\* DirectoryScanner::process_file_entry.  A regular file is never a symlink:
\* the walker reports a link as a link (neither file nor directory) unless it
\* follows it, and then the metadata is the target's.
ProcessFileEntry(e) ==
    [path |-> e.path, size |-> e.size, is_symlink |-> FALSE, depth |-> Len(e.path) - 1]

\* DirectoryScanner::process_directory_entry: HashMap::insert of a zeroed record.
ProcessDirectoryEntry(e, dirs) ==
    (e.path :> [path |-> e.path, total_size |-> 0, file_count |-> 0,
                subdirectory_count |-> 0, depth |-> Len(e.path) - 1]) @@ dirs

\* ------------------------------------------------ calculate_directory_sizes
\* The `while let Some(dir_path) = current_path` loop for one file: every
\* ancestor that has a record gets the file's size, and the one that is the
\* file's parent gets the file counted.
\* Variant: the walk up the ancestors ends at the first one without a record.
RECURSIVE AddFileStopAtMissing(_, _, _)
AddFileStopAtMissing(dirs, file, current_path) ==
    IF current_path = {} THEN dirs
    ELSE LET dir_path == CHOOSE q \in current_path : TRUE IN
         IF dir_path \notin DOMAIN dirs THEN dirs
         ELSE AddFileStopAtMissing(
                  [dirs EXCEPT ![dir_path] =
                      [@ EXCEPT !.total_size = @ + file.size,
                                !.file_count =
                                    IF dir_path = UnwrapOrEmpty(Parent(file.path))
                                    THEN @ + 1 ELSE @]],
                  file, Parent(dir_path))

\* Variant: the file is counted in every ancestor, not only in its parent.
RECURSIVE AddFileCountedEverywhere(_, _, _)
AddFileCountedEverywhere(dirs, file, current_path) ==
    IF current_path = {} THEN dirs
    ELSE LET dir_path == CHOOSE q \in current_path : TRUE
             updated ==
                 IF dir_path \in DOMAIN dirs
                 THEN [dirs EXCEPT ![dir_path] =
                         [@ EXCEPT !.total_size = @ + file.size,
                                   !.file_count = @ + 1]]
                 ELSE dirs
         IN AddFileCountedEverywhere(updated, file, Parent(dir_path))

\* Variant: an ancestor without a record gets one (HashMap::entry().or_insert).
RECURSIVE AddFileCreatingRecords(_, _, _)
AddFileCreatingRecords(dirs, file, current_path) ==
    IF current_path = {} THEN dirs
    ELSE LET dir_path == CHOOSE q \in current_path : TRUE
             seeded ==
                 IF dir_path \in DOMAIN dirs \/ dir_path = <<>> THEN dirs
                 ELSE (dir_path :> [path |-> dir_path, total_size |-> 0,
                                    file_count |-> 0, subdirectory_count |-> 0,
                                    depth |-> Len(dir_path) - 1]) @@ dirs
             updated ==
                 IF dir_path \in DOMAIN seeded
                 THEN [seeded EXCEPT ![dir_path] =
                         [@ EXCEPT !.total_size = @ + file.size,
                                   !.file_count =
                                       IF dir_path = UnwrapOrEmpty(Parent(file.path))
                                       THEN @ + 1 ELSE @]]
                 ELSE seeded
         IN AddFileCreatingRecords(updated, file, Parent(dir_path))

RECURSIVE AddFileToAncestors(_, _, _)
AddFileToAncestors(dirs, file, current_path) ==
    IF current_path = {} THEN dirs
    ELSE LET dir_path == CHOOSE q \in current_path : TRUE
             updated ==
                 IF dir_path \in DOMAIN dirs
                 THEN [dirs EXCEPT ![dir_path] =
                         [@ EXCEPT !.total_size = @ + file.size,
                                   !.file_count =
                                       IF dir_path = UnwrapOrEmpty(Parent(file.path))
                                       THEN @ + 1 ELSE @]]
                 ELSE dirs
         IN AddFileToAncestors(updated, file, Parent(dir_path))

\* The `for file in files` loop.
RECURSIVE AddFiles(_, _)
AddFiles(dirs, fileList) ==
    IF fileList = <<>> THEN dirs
    ELSE AddFiles(AddFileToAncestors(dirs, Head(fileList), Parent(Head(fileList).path)),
                  Tail(fileList))

\* Variant: every path below dir_path is taken for a subdirectory.
SubdirsAtAnyDepth(dir_paths, dir_path) ==
    {other_path \in dir_paths :
        /\ Len(other_path) > Len(dir_path)
        /\ SubSeq(other_path, 1, Len(dir_path)) = dir_path}

\* The filter of the subdirectory count: the other paths whose parent is dir_path.
Subdirs(dir_paths, dir_path) ==
    {other_path \in dir_paths :
        Parent(other_path) = {dir_path} /\ other_path # dir_path}

\* The `for dir_path in &dir_paths` loop.
SetSubdirectoryCounts(dirs) ==
    [dir_path \in DOMAIN dirs |->
        [dirs[dir_path] EXCEPT
            !.subdirectory_count = Cardinality(Subdirs(DOMAIN dirs, dir_path))]]

\* DirectoryScanner::calculate_directory_sizes.  The returned Vec holds one
\* record per key in the map's order; it is kept here keyed by path.
CalculateDirectorySizes(fileList, dirs) ==
    SetSubdirectoryCounts(AddFiles(dirs, fileList))

\* ------------------------------------------------------------------ scan()
Init ==
    /\ pc = "start"
    /\ args \in [path : RootNames, max_depth : (MaxTreeDepth - 1)..MaxTreeDepth,
                  show_hidden : BOOLEAN, exclude_patterns : {<<>>, <<"a">>}]
    /\ fs \in FileSystems(args.path)
    /\ walker = <<>>
    /\ files = <<>>
    /\ directories = <<>>
    /\ errors = <<>>
    /\ total_size = 0
    /\ results = NoResults
    /\ dpc = "idle"
    /\ parallelism = {}
    /\ statistics = NoStatistics
    /\ finder = [min_size |-> 0, thread_count |-> 1]
    /\ disk = <<>>
    /\ changes = 0
    /\ potential_duplicates = {}
    /\ todo = {}
    /\ in_flight = {}
    /\ hash_map = <<>>
    /\ progress = 0
    /\ hash_log = <<>>
    /\ duplicate_groups = <<>>

\* scan(): the locals are initialised and the walker is built.
StartScan ==
    /\ pc = "start"
    /\ pc' = "walking"
    /\ walker' = WalkFrom(<<args.path>>, fs, args.max_depth)
    /\ UNCHANGED <<dupVars, args, fs, files, directories, errors, total_size, results>>

\* One iteration of `for entry in walker`, entry = Err(error).
WalkError ==
    /\ pc = "walking" /\ walker # <<>>
    /\ Head(walker).kind = "denied"
    /\ errors' = Append(errors, [path |-> Head(walker).path,
                                 error_type |-> "PermissionDenied"])
    /\ walker' = Tail(walker)
    /\ UNCHANGED <<dupVars, pc, args, fs, files, directories, total_size, results>>

\* One iteration, the entry is excluded: `continue`.
WalkExcluded ==
    /\ pc = "walking" /\ walker # <<>>
    /\ Head(walker).kind # "denied"
    /\ ShouldExclude(args, Head(walker))
    /\ walker' = Tail(walker)
    /\ UNCHANGED <<dupVars, pc, args, fs, files, directories, errors, total_size, results>>

\* One iteration, a file whose metadata is read.
WalkFile ==
    /\ pc = "walking" /\ walker # <<>>
    /\ Head(walker).kind = "file"
    /\ ~ShouldExclude(args, Head(walker))
    /\ total_size' = total_size + Head(walker).size
    /\ files' = Append(files, ProcessFileEntry(Head(walker)))
    /\ walker' = Tail(walker)
    /\ UNCHANGED <<dupVars, pc, args, fs, directories, errors, results>>

\* One iteration, a file whose metadata cannot be read.
WalkFileFailed ==
    /\ pc = "walking" /\ walker # <<>>
    /\ Head(walker).kind = "nometa"
    /\ ~ShouldExclude(args, Head(walker))
    /\ errors' = Append(errors, [path |-> Head(walker).path, error_type |-> "IoError"])
    /\ walker' = Tail(walker)
    /\ UNCHANGED <<dupVars, pc, args, fs, files, directories, total_size, results>>

\* One iteration, a directory.
WalkDirectory ==
    /\ pc = "walking" /\ walker # <<>>
    /\ Head(walker).kind = "dir"
    /\ ~ShouldExclude(args, Head(walker))
    /\ directories' = ProcessDirectoryEntry(Head(walker), directories)
    /\ walker' = Tail(walker)
    /\ UNCHANGED <<dupVars, pc, args, fs, files, errors, total_size, results>>

\* The walker is exhausted: the directory sizes are calculated and the
\* ScanResults are built.
FinishScan ==
    /\ pc = "walking" /\ walker = <<>>
    /\ pc' = "done"
    /\ results' =
         LET dirs == CalculateDirectorySizes(files, directories) IN
         [total_files |-> Len(files),
          total_directories |-> Cardinality(DOMAIN dirs),
          total_size |-> total_size,
          files |-> files,
          directories |-> dirs,
          errors |-> errors]
    /\ UNCHANGED <<dupVars, args, fs, walker, files, directories, errors, total_size>>

Next ==
    \/ StartScan
    \/ WalkError
    \/ WalkExcluded
    \/ WalkFile
    \/ WalkFileFailed
    \/ WalkDirectory
    \/ FinishScan

Spec == Init /\ [][Next]_vars

\* -------------------------------------------------- the aggregator's claims
\* d is an ancestor of p at any nesting level.
IsAncestor(d, p) ==
    Len(d) < Len(p) /\ SubSeq(p, 1, Len(d)) = d

\* The sum of the sizes of the files of fileList at the indices of I.
RECURSIVE SizeSum(_, _)
SizeSum(fileList, I) ==
    IF I = {} THEN 0
    ELSE LET i == CHOOSE x \in I : TRUE IN
         fileList[i].size + SizeSum(fileList, I \ {i})

\* The sum of file_count over the records of dirs at the paths of D.
RECURSIVE FileCountSum(_, _)
FileCountSum(dirs, D) ==
    IF D = {} THEN 0
    ELSE LET d == CHOOSE x \in D : TRUE IN
         dirs[d].file_count + FileCountSum(dirs, D \ {d})

\* The files of the list whose parent has no record in the directory map.
Orphans == {i \in 1..Len(files) : Parent(files[i].path) \cap DOMAIN directories = {}}

\* fileList without its i-th element.
RemoveAt(fileList, i) ==
    SubSeq(fileList, 1, i - 1) \o SubSeq(fileList, i + 1, Len(fileList))

\* C1: after calculate_directory_sizes every directory of the map has as
\* total_size the sum of the sizes of all the files below it at any depth,
\* files whose intermediate directories have no record included.
C1_CumulativeSize ==
    pc = "done" =>
        \A d \in DOMAIN results.directories :
            results.directories[d].total_size =
                SizeSum(files, {i \in 1..Len(files) : IsAncestor(d, files[i].path)})

\* A directory holds a direct file and, two levels down, a file whose own
\* parent has no record.
C1_Witness ==
    /\ pc = "done"
    /\ \E d \in DOMAIN results.directories :
        /\ \E i \in 1..Len(files) : Parent(files[i].path) = {d}
        /\ \E i \in Orphans : IsAncestor(d, files[i].path)
        /\ results.directories[d].total_size >= 2

\* C2: the file_count of all directories of the result add up to total_files.
C2_FileCountsAddUp ==
    pc = "done" =>
        FileCountSum(results.directories, DOMAIN results.directories)
            = results.total_files

\* C3: after aggregation every directory's file_count is the number of files
\* whose immediate parent it is; no higher ancestor counts the file.
C3_DirectFileCount ==
    pc = "done" =>
        \A d \in DOMAIN results.directories :
            results.directories[d].file_count =
                Cardinality({i \in 1..Len(files) : Parent(files[i].path) = {d}})

\* A directory counts its own file and not the file of its subdirectory.
C3_Witness ==
    /\ pc = "done"
    /\ \E d \in DOMAIN results.directories, i, j \in 1..Len(files) :
        /\ Parent(files[i].path) = {d}
        /\ IsAncestor(d, files[j].path) /\ Parent(files[j].path) # {d}
        /\ Parent(files[j].path) \subseteq DOMAIN results.directories
        /\ results.directories[d].file_count = 1

\* C4: after aggregation every directory's subdirectory_count is the number
\* of other directories of the map whose parent it is exactly; the scan root
\* is among the counted of none.
C4_SubdirectoryCount ==
    pc = "done" =>
        \A d \in DOMAIN results.directories :
            results.directories[d].subdirectory_count =
                Cardinality({o \in DOMAIN results.directories :
                                /\ o # d
                                /\ o # <<args.path>>
                                /\ Len(o) = Len(d) + 1
                                /\ SubSeq(o, 1, Len(d)) = d})

\* The root has a subdirectory that has a subdirectory of its own.
C4_Witness ==
    /\ pc = "done"
    /\ \E d, o, g \in DOMAIN results.directories :
        /\ d = <<args.path>>
        /\ Parent(o) = {d} /\ Parent(g) = {o}
        /\ results.directories[d].subdirectory_count = 1
        /\ results.directories[o].subdirectory_count = 1

\* C5: a file whose parent has no record leaves the aggregation complete, no
\* record is made for the parent, and every directory that is not an
\* ancestor of the file has the record it has without the file.
C5_OrphanTolerated ==
    pc = "done" =>
        /\ DOMAIN results.directories = DOMAIN directories
        /\ \A i \in Orphans :
            LET without == CalculateDirectorySizes(RemoveAt(files, i), directories) IN
            \A d \in DOMAIN directories :
                ~IsAncestor(d, files[i].path) =>
                    results.directories[d] = without[d]

\* A file without a recorded parent beside a directory that holds a file and
\* is not its ancestor.
C5_Witness ==
    /\ pc = "done"
    /\ \E i \in Orphans, d \in DOMAIN results.directories :
        /\ ~IsAncestor(d, files[i].path)
        /\ results.directories[d].file_count > 0
        /\ \E r \in DOMAIN results.directories : IsAncestor(r, files[i].path)

\* ========================================================= find_duplicates
\* The paths of the files of a list, pairwise distinct as the walker yields them.
FileNames == <<"f1", "f2", "f3", "f4", "f5", "f6">>
FilePath(i) == <<"r", FileNames[i]>>
\* What tells two contents of one length apart.
Variants == {"x", "y"}
ThreadCounts == 1..MaxThreads

\* The content a read of a file finds: bytes of some length, or an error from
\* File::open or Read::read.
Contents == [ok : {TRUE}, len : Sizes, variant : Variants]
Unreadable == [ok |-> FALSE, len |-> 0, variant |-> "x"]

\* The file lists: any number of files up to MaxFiles, of any size, linked or not.
FileLists ==
    UNION { [1..n -> [size : Sizes, is_symlink : BOOLEAN]] : n \in 0..MaxFiles }

\* Variant: the digest covers the length of the file only.
Sha256HexOfLength(content) == <<"sha256", content.len, "x">>

\* Sha256 over the bytes read, as lower-case hex: equal for equal bytes and,
\* the digest being collision resistant, different for different bytes.
Sha256Hex(content) == <<"sha256", content.len, content.variant>>
NoHash == <<"", 0, "x">>

\* calculate_file_hash: Result<String>
CalculateFileHash(content) ==
    IF content.ok THEN [ok |-> TRUE, hash |-> Sha256Hex(content)]
    ELSE [ok |-> FALSE, hash |-> NoHash]

\* The elements of a sequence.
Range(seq) == {seq[i] : i \in 1..Len(seq)}

\* Variant: the symlink flag is not looked at.
IsCandidateBySizeOnly(file, min_size) ==
    file.size >= min_size

\* The filter of the candidates: `file.size >= self.min_size && !file.is_symlink`.
IsCandidate(file, min_size) ==
    file.size >= min_size /\ ~file.is_symlink

\* candidates: the files that pass the filter, in the list's order.
RECURSIVE Candidates(_, _)
Candidates(fileList, min_size) ==
    IF fileList = <<>> THEN <<>>
    ELSE (IF IsCandidate(Head(fileList), min_size) THEN <<Head(fileList)>> ELSE <<>>)
         \o Candidates(Tail(fileList), min_size)

\* size_groups: HashMap<u64, Vec<&FileEntry>>, each file pushed at its size.
RECURSIVE SizeGroups(_, _)
SizeGroups(groups, candidates) ==
    IF candidates = <<>> THEN groups
    ELSE LET file == Head(candidates)
             pushed ==
                 IF file.size \in DOMAIN groups
                 THEN [groups EXCEPT ![file.size] = Append(@, file)]
                 ELSE (file.size :> <<file>>) @@ groups
         IN SizeGroups(pushed, Tail(candidates))

\* Variant: a size group of one file is kept too.
KeepSizeGroupOfOne(group) == Len(group) >= 1

\* `.filter(|group| group.len() > 1)`
KeepSizeGroup(group) == Len(group) > 1

\* potential_duplicates: the kept size groups, flattened.  The Vec's order is
\* the order of the map's values; the parallel iterator gives no order to
\* the work, so the files are kept as a set.
PotentialDuplicates(size_groups) ==
    UNION {Range(size_groups[s]) : s \in {x \in DOMAIN size_groups :
                                              KeepSizeGroup(size_groups[x])}}

\* Variant: the path replaces the bucket (DashMap::insert of a fresh Vec).
InsertPathReplacing(map, hash, path) ==
    (hash :> <<path>>) @@ map

\* Variant: the push is done a second time.
InsertPathTwice(map, hash, path) ==
    IF hash \in DOMAIN map
    THEN [map EXCEPT ![hash] = Append(Append(@, path), path)]
    ELSE (hash :> <<path, path>>) @@ map

\* Variant: `entry(hash).or_insert(vec![path])`, nothing pushed at a present key.
InsertPathIfAbsent(map, hash, path) ==
    IF hash \in DOMAIN map THEN map ELSE (hash :> <<path>>) @@ map

\* `hash_map.entry(hash).or_default().push(file.path.clone())`, one atomic
\* operation under the lock of the key's shard.
InsertPath(map, hash, path) ==
    IF hash \in DOMAIN map
    THEN [map EXCEPT ![hash] = Append(@, path)]
    ELSE (hash :> <<path>>) @@ map

\* Variant: a bucket of one path makes a group too.
KeepBucketOfOne(file_paths) == Len(file_paths) >= 1

\* `if file_paths.len() > 1`
KeepBucket(file_paths) == Len(file_paths) > 1

\* Variant: the size is the length of the file as it is on disk now.
FindSizeOnDisk(fileList, path) == disk[path].len

\* `files.iter().find(|f| f.path == file_paths[0]).map(|f| f.size).unwrap_or(0)`
RECURSIVE FindSize(_, _)
FindSize(fileList, path) ==
    IF fileList = <<>> THEN 0
    ELSE IF Head(fileList).path = path THEN Head(fileList).size
    ELSE FindSize(Tail(fileList), path)

\* The DuplicateGroup made of one entry of the hash map.
MakeGroup(fileList, hash, file_paths) ==
    LET file_size == FindSize(fileList, file_paths[1]) IN
    [hash |-> hash,
     file_size |-> file_size,
     files |-> file_paths,
     wasted_space |-> file_size * (Len(file_paths) - 1)]

\* The `for entry in hash_map.iter()` loop, the entries met in the order `order`.
RECURSIVE CollectGroups(_, _, _)
CollectGroups(fileList, map, order) ==
    IF order = <<>> THEN <<>>
    ELSE LET hash == Head(order) IN
         (IF KeepBucket(map[hash])
          THEN <<MakeGroup(fileList, hash, map[hash])>> ELSE <<>>)
         \o CollectGroups(fileList, map, Tail(order))

\* Variant: the comparison is `a.wasted_space.cmp(&b.wasted_space)`.
RECURSIVE InsertByWasteAscending(_, _)
InsertByWasteAscending(sorted, g) ==
    IF sorted = <<>> THEN <<g>>
    ELSE IF Head(sorted).wasted_space <= g.wasted_space
         THEN <<Head(sorted)>> \o InsertByWasteAscending(Tail(sorted), g)
         ELSE <<g>> \o sorted

\* One step of the stable sort: g goes behind every group that wastes as much.
RECURSIVE InsertByWaste(_, _)
InsertByWaste(sorted, g) ==
    IF sorted = <<>> THEN <<g>>
    ELSE IF Head(sorted).wasted_space >= g.wasted_space
         THEN <<Head(sorted)>> \o InsertByWaste(Tail(sorted), g)
         ELSE <<g>> \o sorted

\* `duplicate_groups.sort_by(|a, b| b.wasted_space.cmp(&a.wasted_space))`:
\* a stable sort, descending.
RECURSIVE SortByWaste(_, _)
SortByWaste(sorted, groups) ==
    IF groups = <<>> THEN sorted
    ELSE SortByWaste(InsertByWaste(sorted, Head(groups)), Tail(groups))

\* The orders in which an iteration can meet the keys of a map.
Orders(keys) ==
    {order \in [1..Cardinality(keys) -> keys] :
        \A i, j \in 1..Cardinality(keys) : i # j => order[i] # order[j]}

\* ------------------------------------------------------ DuplicateFinder::new
\* The thread count num_cpus::get falls back to.
FallbackCpus == 4

\* Option<usize> and io::Result<NonZeroUsize> as sets: {} is None or an error.
Options(values) == {{}} \cup {{v} : v \in values}
Unwrap(opt) == CHOOSE v \in opt : TRUE

\* Variant: `.unwrap_or_default()`.
NumCpusGetOrDefault(detected) ==
    IF detected = {} THEN 0 ELSE Unwrap(detected)

\* num_cpus::get: `available_parallelism().map(|n| n.get()).unwrap_or(4)`
NumCpusGet(detected) ==
    IF detected = {} THEN FallbackCpus ELSE Unwrap(detected)

\* DuplicateFinder::new: `thread_count.unwrap_or_else(num_cpus::get)`
DuplicateFinderNew(min_size, thread_count, detected) ==
    [min_size |-> min_size,
     thread_count |-> IF thread_count = {} THEN NumCpusGet(detected)
                      ELSE Unwrap(thread_count)]

\* The arguments --min-duplicate-size and --threads as parsed, and the answer
\* the platform will give; no finder is built yet.
NewInit ==
    /\ pc = "start"
    /\ args \in [path : {"r"}, max_depth : {1}, show_hidden : {TRUE},
                  exclude_patterns : {<<>>}, find_duplicates : {TRUE},
                  min_duplicate_size : 0..MaxSize,
                  threads : Options(0..MaxThreads)]
    /\ parallelism \in Options(1..MaxCores)
    /\ statistics = NoStatistics
    /\ fs = {}
    /\ walker = <<>>
    /\ files = <<>>
    /\ directories = <<>>
    /\ errors = <<>>
    /\ total_size = 0
    /\ results = NoResults
    /\ dpc = "new"
    /\ finder = [min_size |-> 0, thread_count |-> 0]
    /\ disk = <<>>
    /\ changes = 0
    /\ potential_duplicates = {}
    /\ todo = {}
    /\ in_flight = {}
    /\ hash_map = <<>>
    /\ progress = 0
    /\ hash_log = <<>>
    /\ duplicate_groups = <<>>

\* DirectoryAnalyzer::new builds the finder from the arguments.
NewFinder ==
    /\ dpc = "new"
    /\ finder' = DuplicateFinderNew(args.min_duplicate_size, args.threads, parallelism)
    /\ dpc' = "start"
    /\ UNCHANGED <<scanVars, files, parallelism, statistics, disk, changes, potential_duplicates,
                   todo, in_flight, hash_map, progress, hash_log, duplicate_groups>>

NewNext == NewFinder

NewSpec == NewInit /\ [][NewNext]_vars

\* -------------------------------------------------------------- find_duplicates
\* The list a scan hands over, and the files as they are on disk then: each
\* file has the length the scan recorded.
DupInit ==
    /\ pc = "done"
    /\ args = [path |-> "r", max_depth |-> 1, show_hidden |-> TRUE,
               exclude_patterns |-> <<>>]
    /\ fs = {}
    /\ walker = <<>>
    /\ directories = <<>>
    /\ errors = <<>>
    /\ total_size = 0
    /\ results = NoResults
    /\ \E attrs \in FileLists :
          /\ files = [i \in DOMAIN attrs |->
                        [path |-> FilePath(i), size |-> attrs[i].size,
                         is_symlink |-> attrs[i].is_symlink, depth |-> 1]]
          /\ disk \in [{FilePath(i) : i \in DOMAIN attrs} -> Contents]
          /\ \A i \in DOMAIN attrs : disk[FilePath(i)].len = attrs[i].size
    /\ finder \in [min_size : Sizes, thread_count : ThreadCounts]
    /\ parallelism = {}
    /\ statistics = NoStatistics
    /\ dpc = "start"
    /\ changes = 0
    /\ potential_duplicates = {}
    /\ todo = {}
    /\ in_flight = {}
    /\ hash_map = <<>>
    /\ progress = 0
    /\ hash_log = [p \in DOMAIN disk |-> <<>>]
    /\ duplicate_groups = <<>>

\* The files that pass both filters of find_duplicates.
Prefiltered ==
    PotentialDuplicates(SizeGroups(<<>>, Candidates(files, finder.min_size)))

\* `if candidates.is_empty() { return Ok(Vec::new()) }`
ReturnNoCandidates ==
    /\ dpc = "start"
    /\ Candidates(files, finder.min_size) = <<>>
    /\ dpc' = "returned"
    /\ duplicate_groups' = <<>>
    /\ UNCHANGED <<scanVars, files, parallelism, statistics, finder, disk, changes, potential_duplicates,
                   todo, in_flight, hash_map, progress, hash_log>>

\* `if potential_duplicates.is_empty() { return Ok(Vec::new()) }`
ReturnNoPotentialDuplicates ==
    /\ dpc = "start"
    /\ Candidates(files, finder.min_size) # <<>>
    /\ Prefiltered = {}
    /\ dpc' = "returned"
    /\ duplicate_groups' = <<>>
    /\ UNCHANGED <<scanVars, files, parallelism, statistics, finder, disk, changes, potential_duplicates,
                   todo, in_flight, hash_map, progress, hash_log>>

\* `ThreadPoolBuilder::build()?` fails (the threads cannot be spawned):
\* find_duplicates returns the error.
PoolBuildFails ==
    /\ dpc = "start"
    /\ Prefiltered # {}
    /\ dpc' = "failed"
    /\ potential_duplicates' = Prefiltered
    /\ UNCHANGED <<scanVars, files, parallelism, statistics, finder, disk, changes, todo, in_flight,
                   hash_map, progress, hash_log, duplicate_groups>>

\* The pool is built and the parallel iteration over potential_duplicates starts.
StartHashing ==
    /\ dpc = "start"
    /\ Prefiltered # {}
    /\ dpc' = "hashing"
    /\ potential_duplicates' = Prefiltered
    /\ todo' = Prefiltered
    /\ hash_map' = <<>>
    /\ progress' = 0
    /\ UNCHANGED <<scanVars, files, parallelism, statistics, finder, disk, changes, in_flight,
                   hash_log, duplicate_groups>>

\* Another process rewrites or removes a file that is still to be read.
FileChanged ==
    /\ dpc = "hashing"
    /\ changes < MaxChanges
    /\ \E file \in todo, content \in Contents \cup {Unreadable} :
          /\ content # disk[file.path]
          /\ disk' = [disk EXCEPT ![file.path] = content]
    /\ changes' = changes + 1
    /\ UNCHANGED <<scanVars, files, parallelism, statistics, dpc, finder, potential_duplicates, todo,
                   in_flight, hash_map, progress, hash_log, duplicate_groups>>

\* par_iter(): an item is handed to one worker and leaves the work to do.
TodoAfterTake(items, file) == items \ {file}

\* Variant: a failed hash is unwrapped to a default and taken for a digest.
HashTakenAsSucceeded(result) == TRUE

\* `if let Ok(hash) = calculate_file_hash(&file.path)`
HashSucceeded(result) == result.ok

\* Variant: the progress bar is moved inside the `if let Ok`.
ProgressAfterSuccess(position, result) ==
    IF result.ok THEN position + 1 ELSE position

\* `progress_bar.inc(1)`, after the `if let`, whatever the result.
ProgressAfter(position, result) == position + 1

\* Variant: the items are spawned and not joined.
PoolDrainedOfTodo(items, working) == items = {}

\* `pool.install(|| par_iter().for_each(..))` returns when every item has been
\* taken and its closure has run to its end.
PoolDrained(items, working) == items = {} /\ working = {}

\* A free worker takes an item and calls calculate_file_hash on its path.
TakeAndHash ==
    /\ dpc = "hashing"
    /\ Cardinality(in_flight) < finder.thread_count
    /\ \E file \in todo :
          LET result == CalculateFileHash(disk[file.path]) IN
          /\ todo' = TodoAfterTake(todo, file)
          /\ in_flight' = in_flight \cup
                             {[file |-> file, result |-> result, stage |-> "hashed"]}
          /\ hash_log' = [hash_log EXCEPT ![file.path] = Append(@, result)]
    /\ UNCHANGED <<scanVars, files, parallelism, statistics, dpc, finder, disk, changes,
                   potential_duplicates, hash_map, progress, duplicate_groups>>

\* `if let Ok(hash) = ...`: the worker pushes the path into the hash's bucket.
InsertHash ==
    /\ dpc = "hashing"
    /\ \E item \in in_flight :
          /\ item.stage = "hashed" /\ HashSucceeded(item.result)
          /\ hash_map' = InsertPath(hash_map, item.result.hash, item.file.path)
          /\ in_flight' = (in_flight \ {item}) \cup {[item EXCEPT !.stage = "inserted"]}
    /\ UNCHANGED <<scanVars, files, parallelism, statistics, dpc, finder, disk, changes,
                   potential_duplicates, todo, progress, hash_log, duplicate_groups>>

\* `progress_bar.inc(1)`, after the push or after a failed hash; the item is done.
IncProgress ==
    /\ dpc = "hashing"
    /\ \E item \in in_flight :
          /\ item.stage = "inserted" \/ ~HashSucceeded(item.result)
          /\ in_flight' = in_flight \ {item}
          /\ progress' = ProgressAfter(progress, item.result)
    /\ UNCHANGED <<scanVars, files, parallelism, statistics, dpc, finder, disk, changes,
                   potential_duplicates, todo, hash_map, hash_log, duplicate_groups>>

\* pool.install returns: every item has been taken and finished.
JoinPool ==
    /\ dpc = "hashing"
    /\ PoolDrained(todo, in_flight)
    /\ dpc' = "grouping"
    /\ UNCHANGED <<scanVars, files, parallelism, statistics, finder, disk, changes, potential_duplicates,
                   todo, in_flight, hash_map, progress, hash_log, duplicate_groups>>

\* The hash map is turned into groups, the groups are sorted and returned.
BuildGroups ==
    /\ dpc = "grouping"
    /\ \E order \in Orders(DOMAIN hash_map) :
          duplicate_groups' = SortByWaste(<<>>, CollectGroups(files, hash_map, order))
    /\ dpc' = "returned"
    /\ UNCHANGED <<scanVars, files, parallelism, statistics, finder, disk, changes, potential_duplicates,
                   todo, in_flight, hash_map, progress, hash_log>>

DupNext ==
    \/ ReturnNoCandidates
    \/ ReturnNoPotentialDuplicates
    \/ PoolBuildFails
    \/ StartHashing
    \/ FileChanged
    \/ TakeAndHash
    \/ InsertHash
    \/ IncProgress
    \/ JoinPool
    \/ BuildGroups

DupSpec == DupInit /\ [][DupNext]_vars

\* The steps of find_duplicates and of the pool's workers; FileChanged is a
\* step of another process.
FinderStep ==
    \/ ReturnNoCandidates
    \/ ReturnNoPotentialDuplicates
    \/ PoolBuildFails
    \/ StartHashing
    \/ TakeAndHash
    \/ InsertHash
    \/ IncProgress
    \/ JoinPool
    \/ BuildGroups

\* The calling thread and the pool's threads are scheduled and every read
\* returns: a step of the finder that stays possible is taken in the end.
\* The runs checked for termination start from the shorter file lists.
FairDupInit == DupInit /\ Len(files) <= MaxLiveFiles

FairDupSpec == FairDupInit /\ [][DupNext]_vars /\ WF_vars(FinderStep)

\* ------------------------------------------------------ calculate_statistics
\* `groups.iter().map(|g| g.files.len() as u64).sum::<u64>()`
RECURSIVE DuplicateFilesSum(_)
DuplicateFilesSum(groups) ==
    IF groups = <<>> THEN 0
    ELSE Len(Head(groups).files) + DuplicateFilesSum(Tail(groups))

\* `groups.iter().map(|g| g.wasted_space).sum()`
RECURSIVE WastedSpaceSum(_)
WastedSpaceSum(groups) ==
    IF groups = <<>> THEN 0
    ELSE Head(groups).wasted_space + WastedSpaceSum(Tail(groups))

\* The values of a word.
Word == 2 ^ WordBits

\* `a - b` on unsigned words: the difference; below zero a panic where overflow
\* is checked (debug builds) and the wrapped difference where it is not.
Subtract(a, b) ==
    IF a >= b THEN {[panic |-> FALSE, value |-> a - b]}
    ELSE {[panic |-> TRUE, value |-> 0],
          [panic |-> FALSE, value |-> (a - b + Word) % Word]}

\* The outcomes of `(total_size - wasted_space) as f64 / total_size as f64`,
\* or 1.0 for an empty scan; the ratio is kept as a fraction.
CompressionRatios(total, wasted_space) ==
    IF total > 0
    THEN {[panic |-> d.panic, ratio |-> [num |-> d.value, den |-> total]] :
             d \in Subtract(total, wasted_space)}
    ELSE {[panic |-> FALSE, ratio |-> [num |-> 1, den |-> 1]]}

\* The scan result of a file list: every file counted, the sizes summed.
ScanResultsOf(fileList) ==
    [NoResults EXCEPT !.total_files = Len(fileList),
                      !.total_size = SizeSum(fileList, DOMAIN fileList),
                      !.files = fileList]

\* analyze() after the scan: the scan's results, where the scanner lists no
\* symlink, and the files as they are on disk when find_duplicates starts, up
\* to MaxStale of them no longer of the length the scan recorded.
StatInit ==
    /\ pc = "done"
    /\ args \in [path : {"r"}, max_depth : {1}, show_hidden : {TRUE},
                  exclude_patterns : {<<>>}, find_duplicates : BOOLEAN]
    /\ fs = {}
    /\ walker = <<>>
    /\ directories = <<>>
    /\ errors = <<>>
    /\ \E sizes \in UNION {[1..n -> Sizes] : n \in 0..MaxFiles} :
          /\ files = [i \in DOMAIN sizes |->
                        [path |-> FilePath(i), size |-> sizes[i],
                         is_symlink |-> FALSE, depth |-> 1]]
          /\ \E stale \in SUBSET DOMAIN sizes :
                /\ Cardinality(stale) <= MaxStale
                /\ changes = Cardinality(stale)
                /\ disk \in [{FilePath(i) : i \in DOMAIN sizes}
                                -> Contents \cup {Unreadable}]
                /\ \A i \in DOMAIN sizes :
                      (disk[FilePath(i)].len # sizes[i]) <=> i \in stale
    /\ results = ScanResultsOf(files)
    /\ total_size = results.total_size
    /\ finder \in [min_size : Sizes, thread_count : ThreadCounts]
    /\ parallelism = {}
    /\ statistics = NoStatistics
    /\ dpc = IF args.find_duplicates THEN "start" ELSE "skipped"
    /\ potential_duplicates = {}
    /\ todo = {}
    /\ in_flight = {}
    /\ hash_map = <<>>
    /\ progress = 0
    /\ hash_log = [p \in DOMAIN disk |-> <<>>]
    /\ duplicate_groups = <<>>

\* calculate_statistics on the scan's results and the groups, None when no
\* finder was configured.
CalculateStatistics ==
    /\ dpc \in {"returned", "skipped"}
    /\ LET groups == IF dpc = "returned" THEN {duplicate_groups} ELSE {}
           duplicate_files ==
               IF groups = {} THEN 0 ELSE DuplicateFilesSum(Unwrap(groups))
           wasted_space ==
               IF groups = {} THEN 0 ELSE WastedSpaceSum(Unwrap(groups))
       IN \E c \in CompressionRatios(results.total_size, wasted_space) :
             IF c.panic
             THEN /\ dpc' = "panicked"
                  /\ UNCHANGED statistics
             ELSE /\ dpc' = "reported"
                  /\ statistics' = [computed |-> TRUE,
                                    duplicate_files |-> duplicate_files,
                                    wasted_space |-> wasted_space,
                                    compression_ratio |-> c.ratio]
    /\ UNCHANGED <<scanVars, files, parallelism, finder, disk, changes,
                   potential_duplicates, todo, in_flight, hash_map, progress,
                   hash_log, duplicate_groups>>

StatNext ==
    \/ FinderStep
    \/ CalculateStatistics

StatSpec == StatInit /\ [][StatNext]_vars

\* ----------------------------------------------- the duplicate finder's claims
\* The groups find_duplicates has returned.
Groups == Range(duplicate_groups)

\* The paths calculate_file_hash has been called on.
HashedPaths == {p \in DOMAIN hash_log : hash_log[p] # <<>>}

\* The paths whose hash has been computed to be d.
HashedTo(d) ==
    {p \in DOMAIN hash_log :
        \E k \in 1..Len(hash_log[p]) : hash_log[p][k] = [ok |-> TRUE, hash |-> d]}

\* The size the file list records for a path.
RecordedSize(p) ==
    LET i == CHOOSE k \in 1..Len(files) : files[k].path = p IN files[i].size

\* The files of the list of at least min_size that are no symlinks and have
\* the size of another such file.
SharedSizeCandidates ==
    {files[i] : i \in {k \in 1..Len(files) :
        /\ files[k].size >= finder.min_size /\ ~files[k].is_symlink
        /\ \E j \in 1..Len(files) :
              /\ j # k
              /\ files[j].size >= finder.min_size /\ ~files[j].is_symlink
              /\ files[j].size = files[k].size}}

\* C6: every group find_duplicates returns has at least two member paths,
\* whatever the files, the hash results and the interleaving.
C6_GroupsHaveTwoMembers ==
    \A g \in Groups : Len(g.files) >= 2

\* A group is returned while one file's hash has failed and a bucket of a
\* single path is in the map.
C6_Witness ==
    /\ dpc = "returned"
    /\ Groups # {}
    /\ \E d \in DOMAIN hash_map : Len(hash_map[d]) = 1
    /\ \E p \in HashedPaths : ~hash_log[p][1].ok

\* C7: a file below min_size or flagged as a symlink is never hashed and is a
\* member of no returned group.
C7_SmallAndLinkedFilesLeftOut ==
    \A i \in 1..Len(files) :
        (files[i].size < finder.min_size \/ files[i].is_symlink) =>
            /\ files[i].path \notin HashedPaths
            /\ \A g \in Groups : files[i].path \notin Range(g.files)

\* A group is returned beside a symlink with the content of the group's files
\* and a file below min_size.
C7_Witness ==
    /\ dpc = "returned"
    /\ \E g \in Groups, i, j \in 1..Len(files) :
        /\ files[i].is_symlink
        /\ files[i].size >= finder.min_size
        /\ Sha256Hex(disk[files[i].path]) = g.hash
        /\ files[j].size < finder.min_size

\* C8: the files handed to the hasher are exactly the candidates whose size
\* another candidate has: none with a unique size, none with a shared size left out.
C8_HashedAreSharedSizeCandidates ==
    /\ dpc \in {"hashing", "grouping", "failed"} =>
          potential_duplicates = SharedSizeCandidates
    /\ HashedPaths \subseteq {f.path : f \in SharedSizeCandidates}
    /\ dpc \in {"grouping", "returned"} =>
          HashedPaths = {f.path : f \in SharedSizeCandidates}

\* Two candidates of one size have been hashed, a candidate of a size of its
\* own has not.
C8_Witness ==
    /\ dpc = "returned"
    /\ Cardinality(HashedPaths) >= 2
    /\ \E i \in 1..Len(files) :
        /\ files[i].size >= finder.min_size /\ ~files[i].is_symlink
        /\ files[i].path \notin HashedPaths

\* C9: all the members of a returned group have the same recorded size.
C9_GroupMembersSameSize ==
    \A g \in Groups :
        \A p, q \in Range(g.files) : RecordedSize(p) = RecordedSize(q)

\* C10: the returned groups are the digests two or more files were hashed to,
\* one group each, with exactly those files' paths as members.
C10_GroupsAreTheSharedDigests ==
    dpc = "returned" =>
        /\ \A c \in Contents :
              (\E g \in Groups : g.hash = Sha256Hex(c))
                  <=> Cardinality(HashedTo(Sha256Hex(c))) >= 2
        /\ \A k \in 1..Len(duplicate_groups) :
              /\ Range(duplicate_groups[k].files) = HashedTo(duplicate_groups[k].hash)
              /\ \A j \in 1..Len(duplicate_groups) :
                    duplicate_groups[j].hash = duplicate_groups[k].hash => j = k

\* A digest of three files is returned as a group, a digest of one file is not.
C10_Witness ==
    /\ dpc = "returned"
    /\ \E g \in Groups : Len(g.files) = 3
    /\ \E c \in Contents : Cardinality(HashedTo(Sha256Hex(c))) = 1

\* C11: every returned group's wasted_space is its file_size times the number
\* of its members less one, and its file_size is the size the file list records
\* for a member of the group: not the length on disk, not the 0 of unwrap_or.
C11_WastedSpace ==
    \A g \in Groups :
        /\ g.wasted_space = g.file_size * (Len(g.files) - 1)
        /\ \E p \in Range(g.files) : g.file_size = RecordedSize(p)
        /\ g.file_size = RecordedSize(g.files[1])
        /\ g.file_size # 0

\* A group of three members is returned whose first member no longer has on
\* disk the length the scan recorded.
C11_Witness ==
    /\ dpc = "returned"
    /\ \E g \in Groups :
        /\ Len(g.files) = 3
        /\ disk[g.files[1]].len # RecordedSize(g.files[1])
        /\ g.wasted_space = 2 * RecordedSize(g.files[1])

\* C12: the returned list is ordered by wasted_space, largest first: no group
\* wastes less than the group behind it.
C12_SortedByWastedSpace ==
    \A k \in 1..(Len(duplicate_groups) - 1) :
        duplicate_groups[k].wasted_space >= duplicate_groups[k + 1].wasted_space

\* Two groups of different wasted_space are returned, the larger one first.
C12_Witness ==
    /\ dpc = "returned"
    /\ Len(duplicate_groups) = 2
    /\ duplicate_groups[1].wasted_space > duplicate_groups[2].wasted_space

\* C13: with the files unchanged, the order of the returned groups is fixed by
\* the input: whatever order the iteration over the hash map meets the digests
\* in, the list is the one returned, groups of equal wasted_space included.
C13_OrderIsDetermined ==
    (dpc = "returned" /\ changes = 0 /\ potential_duplicates # {}) =>
        \A order \in Orders(DOMAIN hash_map) :
            [k \in 1..Len(duplicate_groups) |-> duplicate_groups[k].hash]
                = LET list == SortByWaste(<<>>, CollectGroups(files, hash_map, order))
                  IN [k \in 1..Len(list) |-> list[k].hash]

\* The paths whose hash has failed.
FailedPaths ==
    {p \in DOMAIN hash_log : \E k \in 1..Len(hash_log[p]) : ~hash_log[p][k].ok}

\* The member sets of the returned groups.
GroupSets == {Range(g.files) : g \in Groups}

\* The sets of two or more of the given paths that were hashed to one digest.
DigestClasses(paths) ==
    {S \in {HashedTo(Sha256Hex(c)) \cap paths : c \in Contents} : Cardinality(S) >= 2}

\* C14: a file whose hash fails is in no bucket of the map and in no group;
\* find_duplicates does not return an error for it, every candidate is still
\* hashed, and the groups are those of the other candidates alone (a digest
\* left with fewer than two of them gives no group).
C14_FailedHashSkipped ==
    /\ \A p \in FailedPaths :
          /\ \A d \in DOMAIN hash_map : p \notin Range(hash_map[d])
          /\ \A g \in Groups : p \notin Range(g.files)
    /\ FailedPaths # {} => dpc # "failed"
    /\ (dpc = "returned" /\ FailedPaths # {}) =>
          /\ \A f \in potential_duplicates : Len(hash_log[f.path]) = 1
          /\ GroupSets =
                DigestClasses({f.path : f \in potential_duplicates} \ FailedPaths)

\* One file's hash has failed, the only other file of its size is alone in
\* its bucket and in no group, and the two other files are returned as a group.
C14_Witness ==
    /\ dpc = "returned"
    /\ Len(duplicate_groups) = 1
    /\ \E p \in FailedPaths, d \in DOMAIN hash_map :
          /\ Len(hash_map[d]) = 1
          /\ RecordedSize(hash_map[d][1]) = RecordedSize(p)
          /\ hash_map[d][1] \notin Range(duplicate_groups[1].files)

\* C15: the progress counter never decreases and moves by one per finished
\* candidate, whether its hash succeeded or failed; it never exceeds the number
\* of pre-filtered candidates and equals it when hashing has finished.
C15_ProgressCounts ==
    /\ [][progress' = progress \/ progress' = progress + 1]_vars
    /\ [](progress <= Cardinality(potential_duplicates))
    /\ [](dpc = "hashing" =>
            progress = Cardinality(potential_duplicates)
                         - Cardinality(todo) - Cardinality(in_flight))
    /\ [](dpc \in {"grouping", "returned"} =>
            progress = Cardinality(potential_duplicates))

\* Hashing has finished with one failed and two or more successful hashes,
\* and the counter stands at the number of candidates.
C15_Witness ==
    /\ dpc = "grouping"
    /\ FailedPaths # {}
    /\ Cardinality(HashedPaths \ FailedPaths) >= 2
    /\ progress = Cardinality(potential_duplicates)
    /\ progress >= 3

\* C16: the hash map is read for grouping, and a group exists, only when no
\* candidate is left to take and none is in flight: every candidate has been
\* hashed and every successful hash is in the map.
C16_GroupingAfterJoin ==
    (dpc \in {"grouping", "returned"} \/ duplicate_groups # <<>>) =>
        /\ todo = {} /\ in_flight = {}
        /\ \A f \in potential_duplicates :
              /\ hash_log[f.path] # <<>>
              /\ hash_log[f.path][1].ok =>
                    /\ hash_log[f.path][1].hash \in DOMAIN hash_map
                    /\ f.path \in Range(hash_map[hash_log[f.path][1].hash])

\* Grouping starts after two workers have hashed four candidates into two or
\* more buckets.
C16_Witness ==
    /\ dpc = "grouping"
    /\ finder.thread_count >= 2
    /\ Cardinality(potential_duplicates) = 4
    /\ Cardinality(DOMAIN hash_map) >= 2

\* The sets of two or more pre-filtered files with the same bytes on disk.
ByteIdenticalClasses ==
    {S \in {{f.path : f \in {x \in SharedSizeCandidates :
                                  disk[x.path] = disk[y.path]}} :
              y \in SharedSizeCandidates} : Cardinality(S) >= 2}

\* C17: with the files unchanged, the returned groups, as sets of paths, are
\* the classes of byte-identical pre-filtered files: the same for every thread
\* count of one or more and every interleaving of the workers.
C17_GroupsIndependentOfThreads ==
    (dpc = "returned" /\ changes = 0) => GroupSets = ByteIdenticalClasses

\* Two workers have hashed unchanged files and two groups are returned, one
\* with its members in another order than the list's.
C17_Witness ==
    /\ dpc = "returned"
    /\ changes = 0
    /\ finder.thread_count >= 2
    /\ Len(duplicate_groups) = 2
    /\ \E g \in Groups, i, j \in 1..Len(files) :
          i < j /\ g.files = <<files[j].path, files[i].path>>

\* The number of times x occurs in a sequence.
Occurrences(seq, x) == Cardinality({k \in 1..Len(seq) : seq[k] = x})

\* The paths whose push into the map has been done.
InsertedPaths ==
    {p \in HashedPaths \ FailedPaths :
        \A item \in in_flight : item.file.path = p => item.stage = "inserted"}

\* C18: no push is lost or misplaced: every path whose push is done, and once
\* hashing has finished that is every successfully hashed candidate, occurs
\* exactly once in the bucket of its own digest and in no other bucket, also
\* when several workers push to a digest that was absent.
C18_NoInsertLost ==
    /\ \A p \in InsertedPaths : hash_log[p][1].hash \in DOMAIN hash_map
    /\ \A p \in DOMAIN hash_log, d \in DOMAIN hash_map :
          Occurrences(hash_map[d], p) =
              IF p \in InsertedPaths /\ hash_log[p][1].hash = d THEN 1 ELSE 0
    /\ dpc \in {"grouping", "returned"} =>
          InsertedPaths = {f.path : f \in potential_duplicates} \ FailedPaths

\* Hashing by two workers has finished with three paths in one bucket and one
\* path in another.
C18_Witness ==
    /\ dpc = "grouping"
    /\ finder.thread_count >= 2
    /\ \E d, e \in DOMAIN hash_map : Len(hash_map[d]) = 3 /\ Len(hash_map[e]) = 1

\* find_duplicates has returned, with the groups or with the pool's error.
Returned == dpc \in {"returned", "failed"}

\* C19: with the finder's steps scheduled fairly, find_duplicates returns in
\* the end, and whenever it has returned every pre-filtered candidate has been
\* hashed by one worker, once: none skipped, none hashed twice.
C19_ReturnsWithAllProcessed ==
    /\ <>Returned
    /\ [](Returned => \A f \in Prefiltered : Len(hash_log[f.path]) = 1)

\* What holds of the return: find_duplicates returns in the end; no file is
\* ever hashed twice; when the groups are returned every pre-filtered candidate
\* has been hashed by one worker, once; when the error of the pool's build is
\* returned no file has been hashed.
ReturnsAndOkMeansAllProcessed ==
    /\ <>Returned
    /\ [](\A p \in DOMAIN hash_log : Len(hash_log[p]) <= 1)
    /\ [](dpc = "returned" => \A f \in Prefiltered : Len(hash_log[f.path]) = 1)
    /\ [](dpc = "failed" => HashedPaths = {})

\* C20: a finder built with no configured thread count has a thread count of
\* at least 1: the core count the platform reports, or 4 when it reports an
\* error; never 0.
C20_DefaultThreadCount ==
    (dpc = "start" /\ args.threads = {}) =>
        /\ finder.thread_count >= 1
        /\ \A n \in parallelism : finder.thread_count = n
        /\ parallelism = {} => finder.thread_count = 4

\* A finder has been built with no configured thread count while the core
\* count could not be detected.
C20_Witness ==
    /\ dpc = "start"
    /\ args.threads = {}
    /\ parallelism = {}
    /\ finder.thread_count = 4

\* The candidates: the files of at least min_size that are no symlinks.
CandidateIndexes ==
    {k \in 1..Len(files) : files[k].size >= finder.min_size /\ ~files[k].is_symlink}

\* The sum of file_size times the number of members over the first n groups.
RECURSIVE GroupSizeSum(_)
GroupSizeSum(n) ==
    IF n = 0 THEN 0
    ELSE duplicate_groups[n].file_size * Len(duplicate_groups[n].files)
         + GroupSizeSum(n - 1)

\* C21: the sum over the returned groups of file_size times the number of
\* members is at most the sum of the sizes of all candidates.
C21_GroupSizesWithinCandidates ==
    GroupSizeSum(Len(duplicate_groups)) <= SizeSum(files, CandidateIndexes)

\* C22: the paths of the file list being pairwise distinct, a path is a member
\* of at most one returned group and occurs at most once in it, whatever the
\* interleaving of the workers.
C22_PathInOneGroupOnce ==
    \A k, j \in 1..Len(duplicate_groups) :
        \A m \in 1..Len(duplicate_groups[k].files),
           n \in 1..Len(duplicate_groups[j].files) :
            duplicate_groups[k].files[m] = duplicate_groups[j].files[n]
                => k = j /\ m = n

\* Two workers have hashed four files, one of them rewritten after the scan,
\* and two groups of two paths are returned.
C22_Witness ==
    /\ dpc = "returned"
    /\ finder.thread_count >= 2
    /\ changes = 1
    /\ Len(duplicate_groups) = 2
    /\ Cardinality(UNION GroupSets) = 4

\* C23: the wasted space summed over the groups find_duplicates returns for a
\* scan result never exceeds the result's total_size: the subtraction in
\* calculate_statistics never goes below zero and compression_ratio is
\* between 0 and 1.
C23_WastedWithinTotal ==
    /\ dpc = "returned" => WastedSpaceSum(duplicate_groups) <= results.total_size
    /\ dpc # "panicked"
    /\ statistics.computed =>
          /\ statistics.wasted_space <= results.total_size
          /\ 0 <= statistics.compression_ratio.num
          /\ statistics.compression_ratio.num <= statistics.compression_ratio.den

====
